---- MODULE Spec2Model ----
(***************************************************************************)
(* Model of the four sketches of Arduino-Level-2:                          *)
(*   "health" src/health_monatring/health_monatring.ino (pulse + BMP280)   *)
(*   "ap"     src/unnamed/part_001  (pulse monitor, access-point mode)     *)
(*   "sta"    src/unnamed/part_000  (pulse monitor, station mode)          *)
(*   "radar"  src/Ultrasonic-Radar-System-Arduino/sketch.ino               *)
(* One sketch runs per behaviour; `sketch` says which.  millis() is the    *)
(* variable clock; every call of millis() inside one loop() iteration may  *)
(* see a later value than the call before it.  All times stay far below    *)
(* 2^32, so unsigned long arithmetic never wraps inside the bounds.        *)
(***************************************************************************)
EXTENDS Integers, Sequences, FiniteSets, TLC

VARIABLES
  sketch,               \* which sketch is flashed
  pc,                   \* "setup" | "loop" | "halted" | radar: "write" | "measure" | "print"
  clock,                \* millis() as the first millis() call of the next loop() iteration reads it
  pulseValue, BPM, pulseDetected, lastBeatTime,
  lastSerialPrintTime, lastEnvReadTime, temperature, pressure,
  clients,              \* WebSocket clients in state WSC_CONNECTED
  servers,              \* what setup() has started: subset of {"bmp","ap","wifi","ws","http"}
  sent,                 \* messages sent by the last step, in order: by one call of an event
                        \* handler, or by one iteration of loop() from analogRead on
  iter,                 \* what the last loop() iteration did (readings, branches taken)
  quietSince,           \* clock at the end of the last iteration that sent "graph" or registered a beat
  i, dir,               \* radar: for-loop variable and which of the two for loops runs
  build,                \* radar: width of double in the build, "f32" (AVR) or "f64"
  duration, distance,   \* radar globals
  servo,                \* radar: angle last written to the servo
  serialOut,            \* radar: characters of the last reading printed
  measuredAt,           \* radar: servo angle at the time of the last measurement
  unprinted             \* radar: servo commands not yet followed by a printed reading

pulseVars == <<pulseValue, BPM, pulseDetected, lastBeatTime, lastSerialPrintTime,
               lastEnvReadTime, temperature, pressure, clients, servers, sent,
               iter, quietSince, clock>>
radarVars == <<i, dir, build, duration, distance, servo, serialOut, measuredAt, unprinted>>
vars == <<sketch, pc, pulseVars, radarVars>>

----------------------------------------------------------------------------
(* Program constants *)
Threshold == 600
MsPerMinute == 60000
GraphModulus == 50
EnvPeriod == 2000
SerialPeriod == 200
LoopDelay == 10
SetupDelay == 100
WifiPollDelay == 500

(* Bounds of the model *)
MaxRun == 40          \* the pulse sketches run until clock exceeds boot time + MaxRun
MaxRunEnv == 4300     \* the same for the environmental-sampler specification
MaxClient == 1        \* WebSocket client numbers are 0..MaxClient

PulseSketches == {"health", "ap", "sta"}
ClientIds == 0..MaxClient
Samples == {512, 600, 601}          \* analogRead(A0) values: below, at, above the threshold
Ticks == {0, 1}                     \* ms passing between one millis() call and the next
RestTicks == {0, 1}                 \* ms an iteration takes beyond delay(10)
(* what webSocket.loop() and server.handleClient() hand to the sketch: a      *)
(* WebSocket event of client num for webSocketEvent, or an HTTP GET / for     *)
(* handleRoot (which sends the page and writes no global)                     *)
Events == {<<"http", 0>>} \cup ({"connect", "disconnect", "text"} \X ClientIds)

----------------------------------------------------------------------------
(* Messages *)
(* mutant: the document is filled before BPM is updated *)
PulseMsgStale(value, bpm, to, from) ==
  [type |-> "pulse", value |-> value, bpm |-> BPM, to |-> to, from |-> from]

(* sendPulseData(), and the same code inline in the station sketch *)
PulseMsg(value, bpm, to, from) ==
  [type |-> "pulse", value |-> value, bpm |-> bpm, to |-> to, from |-> from]

GraphMsg(value, to, from) ==
  [type |-> "graph", value |-> value, to |-> to, from |-> from]

EnvMsg(temp, pres, to, from) ==
  [type |-> "environment", temp |-> temp, pressure |-> pres, to |-> to, from |-> from]

InitMsg(bpm, value, to, from) ==
  [type |-> "init", bpm |-> bpm, value |-> value, to |-> to, from |-> from]

(* bmp.readPressure() / 100.0F: Pa to hPa, as whole hPa and hundredths *)
HPa(pa) == [whole |-> pa \div 100, frac |-> pa % 100]

(* mutant: beats per second instead of per minute *)
BpmOfPerSecond(now, last) == 1000 \div (now - last)

(* 60000 / (millis() - lastBeatTime), unsigned long division stored in int BPM *)
BpmOf(now, last) == MsPerMinute \div (now - last)

(* mutant: the sampler also fires at exactly 2000 ms *)
EnvDueInclusive(now, last) == now - last >= EnvPeriod

(* millis() - lastEnvReadTime > 2000 *)
EnvDue(now, last) == now - last > EnvPeriod

(* millis() - lastSerialPrintTime > 200 *)
SerialDue(now, last) == now - last > SerialPeriod

(* mutant: a sample equal to the threshold counts as above *)
AboveOrEqual(value) == value >= Threshold

(* pulseValue > 600 *)
Above(value) == value > Threshold

(* millis() % 50 == 0 *)
GraphDue(now) == now % GraphModulus = 0

(* mutant: the latch is not consulted *)
BeatEdgeNoLatch(above, latched) == above

(* if (pulseValue > 600) { if (!pulseDetected) { ... } }: a beat is registered *)
BeatEdge(above, latched) == above /\ ~latched

(* mutant: pulseDetected = true is missing, the latch is never set *)
LatchNeverSet(above, latched) == IF above THEN latched ELSE FALSE

(* mutant: the BPM computation is outside the beat branch *)
CalcAlways(beat, last) == last > 0

(* if (lastBeatTime > 0), inside the beat branch: BPM is recomputed *)
CalcDue(beat, last) == beat /\ last > 0

(* mutant: the else branch does not reset the latch *)
LatchNoReset(above, latched) == IF above THEN TRUE ELSE latched

(* pulseDetected after the if/else: set on a beat, kept while above, reset below *)
LatchAfter(above, latched) ==
  IF above THEN (IF ~latched THEN TRUE ELSE latched) ELSE FALSE

----------------------------------------------------------------------------
(* webSocket.loop() calls webSocketEvent once for every event it finds, any *)
(* number of times in one call.  The library marks the client connected    *)
(* before the callback, and broadcastTXT sends to every connected client.  *)
ClientsAfter(ev) ==
  CASE ev[1] = "connect"    -> clients \cup {ev[2]}
    [] ev[1] = "disconnect" -> clients \ {ev[2]}
    [] OTHER                -> clients

(* messages webSocketEvent sends for event ev in sketch sk; the handler     *)
(* answers whatever event it is called with.  num records the client the   *)
(* handler was called for.                                                 *)
webSocketEvent(sk, ev) ==
  LET for(m) == m @@ [num |-> ev[2]]
  IN IF ev[1] # "connect" THEN << >>
     ELSE CASE sk = "health" ->
                 << for(PulseMsg(pulseValue, BPM, ClientsAfter(ev), "event")),
                    for(EnvMsg(temperature, pressure, ClientsAfter(ev), "event")) >>
            [] sk = "ap" ->
                 << for(PulseMsg(pulseValue, BPM, ClientsAfter(ev), "event")) >>
            [] OTHER ->
                 << for(InitMsg(BPM, pulseValue, {ev[2]}, "event")) >>

----------------------------------------------------------------------------
(* Inputs of the environment *)
Temps == {21, 22}                   \* bmp.readTemperature(), degrees C
Pressures == {101325, 99870}        \* bmp.readPressure(), Pa
EnvTicks == {0, 2}                  \* ms the two BMP280 reads take
WifiPolls == {1}                    \* delay(500) rounds until WL_CONNECTED

NoIter == [beat |-> FALSE, calc |-> FALSE, tBpm |-> 0, graph |-> FALSE,
           env |-> FALSE, tStart |-> 0, rawT |-> 0, rawP |-> 0, prev |-> 0]

InitRadarIdle ==
  /\ i = 0 /\ dir = "up" /\ build = "f32" /\ duration = 0 /\ distance = 0
  /\ servo = 0 /\ serialOut = << >> /\ measuredAt = 0 /\ unprinted = 0

(* globals as initialised at lines 38-45 (health), 33-37 (ap), 12-16 (sta) *)
InitPulseGlobals ==
  /\ clock = 0
  /\ pulseValue = 0 /\ BPM = 0 /\ pulseDetected = FALSE
  /\ lastBeatTime = 0 /\ lastSerialPrintTime = 0 /\ lastEnvReadTime = 0
  /\ temperature = 0 /\ pressure = HPa(0)
  /\ clients = {} /\ servers = {} /\ sent = << >>
  /\ iter = NoIter /\ quietSince = 0

Init ==
  /\ sketch \in PulseSketches
  /\ pc = "setup"
  /\ InitPulseGlobals
  /\ InitRadarIdle

(* mutant: setup() goes on after bmp.begin failed (no while (1);) *)
SetupNoHalt(sk, bmpOk, polls) ==
  /\ pc = "setup" /\ sketch = sk
  /\ pc' = "loop"
  /\ servers' = (IF sk = "health" /\ bmpOk THEN {"bmp"} ELSE {})
                   \cup (IF sk = "sta" THEN {"wifi", "ws", "http"}
                                       ELSE {"ap", "ws", "http"})
  /\ clock' = IF sk = "sta" THEN WifiPollDelay * polls ELSE SetupDelay
  /\ quietSince' = clock'
  /\ UNCHANGED <<sketch, pulseValue, BPM, pulseDetected, lastBeatTime,
                 lastSerialPrintTime, lastEnvReadTime, temperature, pressure,
                 clients, sent, iter, radarVars>>

(* setup() of the three pulse sketches; bmpOk is the result of bmp.begin *)
Setup(sk, bmpOk, polls) ==
  /\ pc = "setup" /\ sketch = sk
  /\ IF sk = "health" /\ ~bmpOk
       THEN /\ pc' = "halted"                       \* while (1);
            /\ servers' = servers
            /\ clock' = SetupDelay
       ELSE /\ pc' = "loop"
            /\ servers' = (IF sk = "health" THEN {"bmp"} ELSE {})
                             \cup (IF sk = "sta" THEN {"wifi", "ws", "http"}
                                                 ELSE {"ap", "ws", "http"})
            /\ clock' = IF sk = "sta" THEN WifiPollDelay * polls ELSE SetupDelay
  /\ quietSince' = clock'
  /\ UNCHANGED <<sketch, pulseValue, BPM, pulseDetected, lastBeatTime,
                 lastSerialPrintTime, lastEnvReadTime, temperature, pressure,
                 clients, sent, iter, radarVars>>

(* webSocket.loop() (line 83) or server.handleClient() (line 84) hands one  *)
(* event to its handler.  This happens at the top of an iteration, before   *)
(* analogRead and before the first millis() call, as often as there are     *)
(* events.                                                                  *)
Dispatch(sk, ev) ==
  /\ pc = "loop" /\ sketch = sk
  /\ clients' = ClientsAfter(ev)
  /\ sent' = webSocketEvent(sk, ev)
  /\ UNCHANGED <<sketch, pc, clock, pulseValue, BPM, pulseDetected, lastBeatTime,
                 lastSerialPrintTime, lastEnvReadTime, temperature, pressure,
                 servers, iter, quietSince, radarVars>>

(* The rest of one iteration of loop(), from analogRead to delay(10).       *)
(* sample: analogRead(A0); env = <<rawT, rawP, tick>>: the BMP280 readings  *)
(* and the ms they take; tk: the ms that pass before each later millis()    *)
(* call (ser: the serial test, print: after the Serial.print calls, bpm:    *)
(* the BPM computation, beat: the value stored in lastBeatTime, graph: the  *)
(* graph test), 0 for a call that is not executed; rt: ms beyond delay(10). *)
(* In the ap and sta sketches the serial test is the first millis() call.   *)
Loop(sk, sample, env, tk, rt) ==
  LET m90     == clock
      doEnv   == sk = "health" /\ EnvDue(m90, lastEnvReadTime)
      newT    == IF doEnv THEN env[1] ELSE temperature
      newP    == IF doEnv THEN HPa(env[2]) ELSE pressure
      m93     == m90 + env[3]
      envMsgs == IF doEnv THEN << EnvMsg(newT, newP, clients, "loop") >> ELSE << >>
      m98     == (IF doEnv THEN m93 ELSE m90) + tk.ser
      doPrint == SerialDue(m98, lastSerialPrintTime)
      m108    == m98 + tk.print
      tSer    == IF doPrint THEN m108 ELSE m98
      above   == Above(sample)
      beat    == BeatEdge(above, pulseDetected)
      calc    == CalcDue(beat, lastBeatTime)
      m116    == tSer + tk.bpm
      newBPM  == IF calc THEN BpmOf(m116, lastBeatTime) ELSE BPM
      m120    == (IF calc THEN m116 ELSE tSer) + tk.beat
      m127    == tSer + tk.graph
      graph   == ~above /\ GraphDue(m127)
      tailMsgs == IF beat THEN << PulseMsg(sample, newBPM, clients, "loop") >>
                  ELSE IF graph THEN << GraphMsg(sample, clients, "loop") >>
                  ELSE << >>
      tLast   == IF beat THEN m120 ELSE IF above THEN tSer ELSE m127
      tEnd    == tLast + LoopDelay + rt
  IN
  /\ pc = "loop" /\ sketch = sk
  /\ sk # "health" => tk.ser = 0
  /\ ~doPrint => tk.print = 0
  /\ ~calc => tk.bpm = 0
  /\ ~beat => tk.beat = 0
  /\ above => tk.graph = 0
  /\ pulseValue' = sample
  /\ temperature' = newT
  /\ pressure' = newP
  /\ lastEnvReadTime' = IF doEnv THEN m93 ELSE lastEnvReadTime
  /\ lastSerialPrintTime' = IF doPrint THEN m108 ELSE lastSerialPrintTime
  /\ pulseDetected' = LatchAfter(above, pulseDetected)
  /\ BPM' = newBPM
  /\ lastBeatTime' = IF beat THEN m120 ELSE lastBeatTime
  /\ sent' = envMsgs \o tailMsgs
  /\ iter' = [beat |-> beat, calc |-> calc, tBpm |-> IF calc THEN m116 ELSE 0,
              graph |-> graph, env |-> doEnv, tStart |-> m90,
              rawT |-> IF doEnv THEN env[1] ELSE 0,
              rawP |-> IF doEnv THEN env[2] ELSE 0,
              prev |-> pulseValue]
  /\ clock' = tEnd
  /\ quietSince' = IF beat \/ graph THEN tEnd ELSE quietSince
  /\ UNCHANGED <<sketch, pc, clients, servers, radarVars>>

TickInputs == [ser : Ticks, print : Ticks, bpm : Ticks, beat : Ticks, graph : Ticks]

EnvInputs(sk) ==
  IF sk = "health" /\ EnvDue(clock, lastEnvReadTime)
    THEN Temps \X Pressures \X EnvTicks
    ELSE {<<0, 0, 0>>}

BootTime(sk) == IF sk = "sta" THEN WifiPollDelay ELSE SetupDelay

SetupPulse == \E sk \in PulseSketches, bmpOk \in BOOLEAN, polls \in WifiPolls :
                Setup(sk, bmpOk, polls)

DispatchEvent ==
  /\ clock <= BootTime(sketch) + MaxRun
  /\ \E sk \in PulseSketches, ev \in Events : Dispatch(sk, ev)

LoopIn(sk) ==
  /\ clock <= BootTime(sk) + MaxRun
  /\ \E sample \in Samples, env \in EnvInputs(sk), tk \in TickInputs, rt \in RestTicks :
       Loop(sk, sample, env, tk, rt)

LoopHealth == LoopIn("health")
LoopAp == LoopIn("ap")
LoopSta == LoopIn("sta")

Next == SetupPulse \/ DispatchEvent \/ LoopHealth \/ LoopAp \/ LoopSta

Spec == Init /\ [][Next]_vars

----------------------------------------------------------------------------
(* The health sketch run long enough for the 2-second sampler: a quiet     *)
(* sensor, one client coming and going, iterations of exactly 10 ms plus    *)
(* the time the BMP280 reads take.                                         *)
EnvSamples == {512}
EnvEvents == {<<"connect", 0>>, <<"disconnect", 0>>}
EnvRestTicks == {0}
NoTicks == [ser |-> 0, print |-> 0, bpm |-> 0, beat |-> 0, graph |-> 0]

InitEnv ==
  /\ sketch = "health"
  /\ pc = "setup"
  /\ InitPulseGlobals
  /\ InitRadarIdle

SetupEnv == \E bmpOk \in BOOLEAN : Setup("health", bmpOk, 1)

DispatchEnv ==
  /\ clock <= SetupDelay + MaxRunEnv
  /\ \E ev \in EnvEvents : Dispatch("health", ev)

LoopEnv ==
  /\ clock <= SetupDelay + MaxRunEnv
  /\ \E sample \in EnvSamples, env \in EnvInputs("health"), rt \in EnvRestTicks :
       Loop("health", sample, env, NoTicks, rt)

NextEnv == SetupEnv \/ DispatchEnv \/ LoopEnv

EnvSpec == InitEnv /\ [][NextEnv]_vars

----------------------------------------------------------------------------
(* The radar sketch *)
MinAngle == 15
MaxAngle == 165

(* 0.034 as the build's double: mant / 2^exp, rounded to prec significant  *)
(* bits.  mant is in limbs of 10 bits, least significant first.            *)
(* f32 (AVR, double is float): 0x3D0B4396 = 9126806 / 2^28                 *)
(* f64: 0x3FA16872B020C49C = 1224979098644775 / 2^55                       *)
Const034(b) ==
  IF b = "f32" THEN [mant |-> <<918, 720, 8>>, exp |-> 28, prec |-> 24]
               ELSE [mant |-> <<295, 524, 704, 114, 90, 1>>, exp |-> 55, prec |-> 53]

(* limbs of d * limbs[k..], carry added *)
RECURSIVE MulLimbs(_, _, _, _)
MulLimbs(d, limbs, k, carry) ==
  IF k > Len(limbs)
    THEN IF carry = 0 THEN << >>
         ELSE <<carry % 1024>> \o MulLimbs(d, limbs, k, carry \div 1024)
    ELSE LET v == d * limbs[k] + carry
         IN <<v % 1024>> \o MulLimbs(d, limbs, k + 1, v \div 1024)

Bit(limbs, b) ==
  IF b \div 10 + 1 > Len(limbs) THEN 0
  ELSE (limbs[b \div 10 + 1] \div (2 ^ (b % 10))) % 2

BitLen(limbs) ==
  LET ones == {b \in 0..(10 * Len(limbs) - 1) : Bit(limbs, b) = 1}
  IN IF ones = {} THEN 0 ELSE 1 + CHOOSE b \in ones : \A c \in ones : c <= b

(* value of bits lo..hi of limbs, shifted down by lo *)
RECURSIVE BitsValue(_, _, _)
BitsValue(limbs, lo, hi) ==
  IF hi < lo THEN 0
  ELSE Bit(limbs, lo) + 2 * BitsValue(limbs, lo + 1, hi)

(* mutant: the round trip is not halved *)
DistanceNotHalved(b, d) == (d * 34) \div 1000

(* (int)(duration * 0.034 / 2): the product is rounded to nearest-even at  *)
(* prec bits, halving is exact, the conversion to int truncates.           *)
DistanceOf(b, d) ==
  LET c      == Const034(b)
      n      == MulLimbs(d, c.mant, 1, 0)
      k      == BitLen(n)
      s      == k - c.prec
      trunc0 == BitsValue(n, c.exp + 1, k - 1)
      up     == /\ s > 0
                /\ Bit(n, s - 1) = 1
                /\ \/ Bit(n, s) = 1
                   \/ \E x \in 0..(s - 2) : Bit(n, x) = 1
      carry  == \A x \in s..c.exp : Bit(n, x) = 1
  IN IF up /\ carry THEN trunc0 + 1 ELSE trunc0

(* Serial.print(int): decimal digits, most significant first *)
RECURSIVE Digits(_)
Digits(n) ==
  IF n < 10 THEN <<n>> ELSE Digits(n \div 10) \o <<n % 10>>

Builds == {"f32", "f64"}
(* pulseIn(echoPin, HIGH): echo time in us, 0 on timeout, at most 1 s *)
Durations == {0, 1, 58, 59, 1000, 23529, 554646, 554647, 999647, 1000000}

InitRadar ==
  /\ sketch = "radar"
  /\ pc = "setup"
  /\ InitPulseGlobals
  /\ build \in Builds
  /\ i = 0 /\ dir = "up" /\ duration = 0 /\ distance = 0
  /\ servo = 0 /\ serialOut = << >> /\ measuredAt = 0 /\ unprinted = 0

(* setup(), then loop() enters the first for loop *)
RadarSetup ==
  /\ sketch = "radar" /\ pc = "setup"
  /\ pc' = "write"
  /\ i' = MinAngle /\ dir' = "up"
  /\ UNCHANGED <<sketch, pulseVars, build, duration, distance, servo, serialOut,
                 measuredAt, unprinted>>

(* mutant: the servo is sent one degree ahead of the angle that is printed *)
ServoWriteAhead ==
  /\ sketch = "radar" /\ pc = "write"
  /\ servo' = i + 1
  /\ unprinted' = unprinted + 1
  /\ pc' = "measure"
  /\ UNCHANGED <<sketch, pulseVars, i, dir, build, duration, distance, serialOut,
                 measuredAt>>

(* myservo.write(i); delay(15); *)
ServoWrite ==
  /\ sketch = "radar" /\ pc = "write"
  /\ servo' = i
  /\ unprinted' = unprinted + 1
  /\ pc' = "measure"
  /\ UNCHANGED <<sketch, pulseVars, i, dir, build, duration, distance, serialOut,
                 measuredAt>>

(* distance = calculateDistance(); d is what pulseIn returns *)
calculateDistance(d) ==
  /\ sketch = "radar" /\ pc = "measure"
  /\ duration' = d
  /\ distance' = DistanceOf(build, d)
  /\ measuredAt' = servo
  /\ pc' = "print"
  /\ UNCHANGED <<sketch, pulseVars, i, dir, build, servo, serialOut, unprinted>>

(* mutant: the upward loop tests i < 165, so it stops one degree short *)
PrintReadingShort ==
  /\ sketch = "radar" /\ pc = "print"
  /\ serialOut' = Digits(i) \o <<",">> \o Digits(distance) \o <<".">>
  /\ unprinted' = unprinted - 1
  /\ IF dir = "up"
       THEN IF i + 1 < MaxAngle
              THEN i' = i + 1 /\ dir' = "up"
              ELSE i' = MaxAngle /\ dir' = "down"
       ELSE IF i - 1 >= MinAngle
              THEN i' = i - 1 /\ dir' = "down"
              ELSE i' = MinAngle /\ dir' = "up"
  /\ pc' = "write"
  /\ UNCHANGED <<sketch, pulseVars, build, duration, distance, servo, measuredAt>>

(* the four Serial.print calls, then the for loop's step and test *)
PrintReading ==
  /\ sketch = "radar" /\ pc = "print"
  /\ serialOut' = Digits(i) \o <<",">> \o Digits(distance) \o <<".">>
  /\ unprinted' = unprinted - 1
  /\ IF dir = "up"
       THEN IF i + 1 <= MaxAngle
              THEN i' = i + 1 /\ dir' = "up"
              ELSE i' = MaxAngle /\ dir' = "down"
       ELSE IF i - 1 >= MinAngle
              THEN i' = i - 1 /\ dir' = "down"
              ELSE i' = MinAngle /\ dir' = "up"
  /\ pc' = "write"
  /\ UNCHANGED <<sketch, pulseVars, build, duration, distance, servo, measuredAt>>

Measure == \E d \in Durations : calculateDistance(d)

NextRadar == RadarSetup \/ ServoWrite \/ Measure \/ PrintReading

RadarSpec == InitRadar /\ [][NextRadar]_vars

(* The sweep with two echo times.  delay(15) and pulseIn (1 s timeout)      *)
(* always return and the core calls loop() again whenever it returns, so    *)
(* the sketch never stops: weak fairness of its steps.                      *)
SweepDurations == {0, 1000}

MeasureSweep == \E d \in SweepDurations : calculateDistance(d)

NextSweep == RadarSetup \/ ServoWrite \/ MeasureSweep \/ PrintReading

SweepSpec == InitRadar /\ [][NextSweep]_vars /\ WF_vars(NextSweep)

----------------------------------------------------------------------------
(* Properties of the pulse sketches *)

(* a step that is one iteration of loop() *)
LoopStep == pc = "loop" /\ clock' > clock

(* the "pulse" messages the detection branch of loop() sent in the last iteration *)
LoopPulses(msgs) ==
  {k \in DOMAIN msgs : msgs[k].from = "loop" /\ msgs[k].type = "pulse"}

(* C1: whenever an iteration registers a beat and lastBeatTime > 0, BPM     *)
(* becomes the integer quotient 60000 / (now - lastBeatTime), now being the *)
(* millis() value read in that iteration and lastBeatTime the time stored   *)
(* at the previous registered beat.                                         *)
C1_BpmIsQuotient ==
  [][ (LoopStep /\ iter'.beat /\ lastBeatTime > 0) =>
        /\ iter'.calc
        /\ clock <= iter'.tBpm /\ iter'.tBpm < clock'
        /\ BPM' = MsPerMinute \div (iter'.tBpm - lastBeatTime) ]_vars

C1_Witness ==
  /\ iter.beat /\ iter.calc
  /\ BPM = MsPerMinute \div 20

(* C2 as stated: a beat is registered only if the current sample is above   *)
(* 600 and the previous sample was below 600.                               *)
C2_PreviousBelow ==
  [][ (LoopStep /\ iter'.beat) =>
        (pulseValue' > Threshold /\ pulseValue < Threshold) ]_vars

(* C2 amended: a beat is registered only if the current sample is above 600 *)
(* and the previous sample was not above 600 (below or equal; 0 at boot).   *)
C2_PreviousNotAbove ==
  [][ (LoopStep /\ iter'.beat) =>
        (pulseValue' > Threshold /\ pulseValue <= Threshold) ]_vars

C2_Witness ==
  /\ iter.beat
  /\ iter.prev = Threshold
  /\ pulseValue > Threshold

(* C3: in a run of consecutive iterations with samples above the threshold  *)
(* the first iteration registers a beat and sends one "pulse" message, and  *)
(* no later iteration of the run changes BPM or lastBeatTime or sends a     *)
(* "pulse" message from the loop.                                           *)
C3_Debounce ==
  [][ LoopStep =>
        /\ (pulseValue' > Threshold /\ pulseValue <= Threshold) =>
              (iter'.beat /\ Cardinality(LoopPulses(sent')) = 1)
        /\ (pulseValue' > Threshold /\ pulseValue > Threshold) =>
              /\ ~iter'.beat
              /\ BPM' = BPM
              /\ lastBeatTime' = lastBeatTime
              /\ LoopPulses(sent') = {} ]_vars

C3_Witness ==
  /\ pc = "loop"
  /\ iter.prev > Threshold /\ pulseValue > Threshold
  /\ ~iter.beat
  /\ lastBeatTime > 0

(* C4: at the end of every iteration pulseDetected = (sample > 600), and    *)
(* the first sample above the threshold after a sample not above it         *)
(* registers a beat.                                                        *)
C4_LatchFollowsSample ==
  [][ LoopStep =>
        /\ pulseDetected' = (pulseValue' > Threshold)
        /\ (pulseDetected /\ pulseValue' <= Threshold) => ~pulseDetected'
        /\ (~pulseDetected /\ pulseValue' > Threshold) => iter'.beat ]_vars

C4_Witness ==
  /\ iter.beat /\ iter.calc
  /\ iter.prev <= Threshold
  /\ pulseDetected
  /\ sketch = "ap"

(* C5 as stated: on a registered beat lastBeatTime is set to the very       *)
(* timestamp that was the minuend of the BPM computation.                   *)
C5_SameTimestamp ==
  [][ (LoopStep /\ iter'.beat /\ iter'.calc) =>
        lastBeatTime' = iter'.tBpm ]_vars

(* C6: a registered beat broadcasts exactly one "pulse" message to all      *)
(* connected clients, with the current sample and the BPM as it is after    *)
(* the update (0 on the first beat).                                        *)
C6_PulseBroadcast ==
  [][ (LoopStep /\ iter'.beat) =>
        /\ Cardinality(LoopPulses(sent')) = 1
        /\ \A k \in LoopPulses(sent') :
             /\ sent'[k].to = clients'
             /\ sent'[k].value = pulseValue'
             /\ sent'[k].bpm = BPM'
             /\ lastBeatTime = 0 => sent'[k].bpm = 0
             /\ lastBeatTime > 0 =>
                  sent'[k].bpm = MsPerMinute \div (iter'.tBpm - lastBeatTime) ]_vars

C6_Witness ==
  /\ iter.beat /\ iter.calc
  /\ clients = ClientIds
  /\ \E k \in LoopPulses(sent) :
       sent[k].bpm = BPM /\ BPM > 0 /\ sent[k].to = ClientIds

(* C7 as stated: while loop() runs, no stretch of more than 50 ms passes    *)
(* without a registered beat or a "graph" message.                          *)
C7_GraphEvery50ms ==
  pc = "loop" => clock - quietSince <= GraphModulus

----------------------------------------------------------------------------
(* Properties of the radar sketch *)

(* C8 as stated: the distance is floor(duration * 17 / 1000) for every echo *)
(* duration up to the 1 s timeout.                                          *)
C8_FloorOfExactProduct ==
  pc = "print" => distance = (duration * 17) \div 1000

(* C8 amended: the distance is the truncation of the floating-point product *)
(* duration * 0.034 / 2; it is floor(duration * 17 / 1000) for durations up *)
(* to 554646 us, and for all durations when double has 64 bits; with a      *)
(* 32-bit double it is never smaller and at most one larger; it is 0 for a  *)
(* timed-out echo and fits in a 16-bit int.                                 *)
C8_DistanceFromEcho ==
  pc = "print" =>
    /\ (duration <= 554646 \/ build = "f64") =>
          distance = (duration * 17) \div 1000
    /\ distance >= (duration * 17) \div 1000
    /\ distance <= (duration * 17) \div 1000 + 1
    /\ duration = 0 => distance = 0
    /\ distance <= 32767

C8_Witness ==
  /\ pc = "print"
  /\ build = "f32"
  /\ duration = 554646
  /\ distance = 9428

(* C9: every sweep step commands the servo to i, then measures, then prints *)
(* "i,distance."; the printed angle is the angle the servo was last sent to *)
(* and the printed distance was measured after that command; each servo     *)
(* command is followed by exactly one printed reading.                      *)
C9_StepOrder ==
  /\ [](sketch = "radar" =>
          /\ pc \in {"setup", "write"} => unprinted = 0
          /\ pc \in {"measure", "print"} => (unprinted = 1 /\ servo = i)
          /\ pc = "print" => measuredAt = servo)
  /\ [][ (sketch = "radar" /\ pc # "setup") =>
          /\ servo' # servo \/ unprinted' > unprinted =>
               (pc = "write" /\ pc' = "measure" /\ servo' = i)
          /\ pc = "measure" => pc' = "print"
          /\ pc = "print" =>
               /\ pc' = "write"
               /\ unprinted' = unprinted - 1
               /\ serialOut' = Digits(servo) \o <<",">> \o Digits(distance) \o <<".">>
          /\ pc # "print" => (serialOut' = serialOut /\ unprinted' >= unprinted) ]_vars

C9_Witness ==
  /\ pc = "write" /\ dir = "down" /\ i = MaxAngle
  /\ servo = MaxAngle
  /\ distance = 17
  /\ serialOut = <<1, 6, 5, ",", 1, 7, ".">>

----------------------------------------------------------------------------
(* Properties of the environmental sampler of the health sketch *)

LoopEnvMsgs(msgs) ==
  {k \in DOMAIN msgs : msgs[k].from = "loop" /\ msgs[k].type = "environment"}

(* C10: an iteration samples exactly when it starts more than 2000 ms after *)
(* the time stored at the previous sampling (0 before the first one); it    *)
(* then reads temperature and pressure and broadcasts one "environment"     *)
(* message with these two values in the same iteration; other iterations    *)
(* leave the readings alone and send no such message.                       *)
C10_EnvSampler ==
  [][ LoopStep =>
        /\ iter'.env <=> (sketch = "health" /\ clock - lastEnvReadTime > EnvPeriod)
        /\ iter'.env =>
             /\ clock > EnvPeriod
             /\ temperature' = iter'.rawT
             /\ pressure' = [whole |-> iter'.rawP \div 100, frac |-> iter'.rawP % 100]
             /\ lastEnvReadTime' >= clock /\ lastEnvReadTime' < clock'
             /\ lastEnvReadTime' - lastEnvReadTime > EnvPeriod
             /\ Cardinality(LoopEnvMsgs(sent')) = 1
             /\ \A k \in LoopEnvMsgs(sent') :
                  /\ sent'[k].temp = temperature'
                  /\ sent'[k].pressure = pressure'
                  /\ sent'[k].to = clients'
        /\ ~iter'.env =>
             /\ LoopEnvMsgs(sent') = {}
             /\ UNCHANGED <<temperature, pressure, lastEnvReadTime>> ]_vars

C10_Witness ==
  /\ iter.env
  /\ lastEnvReadTime > 2 * EnvPeriod
  /\ temperature = 22
  /\ pressure = [whole |-> 998, frac |-> 70]
  /\ \E k \in LoopEnvMsgs(sent) : sent[k].temp = 22 /\ sent[k].to = {0}

----------------------------------------------------------------------------
(* Properties of the WebSocket event handler *)

(* the messages in msgs that webSocketEvent sent *)
EventMsgs(msgs) == {k \in DOMAIN msgs : msgs[k].from = "event"}

(* C11 as stated: when a client connects, the initial data goes to the      *)
(* newly connected client and to no client that was connected before.       *)
C11_InitialDataToNewClientOnly ==
  \A k \in EventMsgs(sent) : sent[k].to = {sent[k].num}

----------------------------------------------------------------------------
(* C12: the commanded servo angles are 15,16,...,165 then 165,164,...,15,   *)
(* again and again: every command lies in [15,165]; the upward loop steps   *)
(* by +1 and the downward loop by -1; the first command of each loop        *)
(* repeats the last angle of the loop before it (165 and 15 are commanded   *)
(* twice in a row); every angle is commanded in each direction infinitely   *)
(* often.                                                                   *)
C12_Sweep ==
  /\ [](sketch = "radar" /\ pc # "setup" =>
          /\ i \in MinAngle..MaxAngle
          /\ servo = 0 \/ servo \in MinAngle..MaxAngle)
  /\ [][ (pc = "write" /\ pc' = "measure") =>
          /\ servo' \in MinAngle..MaxAngle
          /\ IF servo = 0 THEN servo' = MinAngle /\ dir = "up"
             ELSE IF dir = "up"
                    THEN IF servo' = MinAngle THEN servo = MinAngle
                                              ELSE servo' = servo + 1
                    ELSE IF servo' = MaxAngle THEN servo = MaxAngle
                                              ELSE servo' = servo - 1 ]_vars
  /\ \A a \in MinAngle..MaxAngle : \A d \in {"up", "down"} :
        []<>(pc = "measure" /\ servo = a /\ dir = d)

C12_Witness ==
  /\ sketch = "radar"
  /\ pc = "measure" /\ dir = "up"
  /\ servo = MinAngle /\ measuredAt = MinAngle
  /\ serialOut = <<1, 5, ",", 1, 7, ".">>

----------------------------------------------------------------------------
(* C13: in the health sketch, when bmp.begin fails setup() never completes: *)
(* no access point, WebSocket server or HTTP server is started, loop()      *)
(* never runs and nothing is ever sent; when the sensor is found, the       *)
(* access point and both servers are started before the first iteration.    *)
C13_SensorGate ==
  /\ [](sketch = "health" /\ pc # "setup" /\ "bmp" \notin servers =>
          /\ pc = "halted"
          /\ servers = {}
          /\ clients = {}
          /\ sent = << >>
          /\ iter = NoIter)
  /\ [](sketch = "health" /\ pc = "loop" => servers = {"bmp", "ap", "ws", "http"})
  /\ [][ (pc = "halted" => pc' = "halted")
         /\ (LoopStep => {"ws", "http"} \subseteq servers) ]_vars

C13_Witness ==
  /\ sketch = "health"
  /\ pc = "halted"
  /\ clock = SetupDelay
  /\ servers = {}

----------------------------------------------------------------------------
(* C14: whenever BPM is computed the divisor millis() - lastBeatTime is at  *)
(* least 20 (two iterations of at least 10 ms each), because the iteration  *)
(* before a second or later beat had a sample not above the threshold and   *)
(* registered no beat; so no division by zero occurs and BPM stays within   *)
(* 0..3000.                                                                 *)
C14_DivisorAtLeast20 ==
  /\ [](BPM >= 0 /\ BPM <= MsPerMinute \div (2 * LoopDelay))
  /\ [][ LoopStep =>
          /\ iter'.calc => iter'.tBpm - lastBeatTime >= 2 * LoopDelay
          /\ (iter'.beat /\ lastBeatTime > 0) =>
               (pulseValue <= Threshold /\ ~iter.beat /\ clock - lastBeatTime >= 2 * LoopDelay)
          /\ clock' - clock >= LoopDelay ]_vars

C14_Witness ==
  /\ sketch = "sta"
  /\ iter.calc
  /\ BPM = 3000
  /\ lastBeatTime = iter.tBpm + 1

----------------------------------------------------------------------------
(* C15: BPM and lastBeatTime are changed by nothing but a registered beat:  *)
(* not by setup(), not by the handler of a WebSocket event or HTTP request  *)
(* (the handler sends the BPM it finds), not by an iteration without a      *)
(* beat; BPM is 0 while no beat was registered and is still 0 after the     *)
(* first beat.                                                              *)
C15_BpmFrame ==
  /\ [](lastBeatTime = 0 => BPM = 0)
  /\ [](\A k \in EventMsgs(sent) :
          sent[k].type \in {"pulse", "init"} => sent[k].bpm = BPM)
  /\ [][ /\ ~LoopStep => (BPM' = BPM /\ lastBeatTime' = lastBeatTime)
         /\ (LoopStep /\ ~iter'.beat) => (BPM' = BPM /\ lastBeatTime' = lastBeatTime)
         /\ (LoopStep /\ iter'.beat /\ lastBeatTime = 0) => BPM' = 0 ]_vars

C15_Witness ==
  /\ pc = "loop"
  /\ iter.calc
  /\ lastBeatTime > 0
  /\ BPM = MsPerMinute \div (2 * LoopDelay)
  /\ clients = {1}
  /\ \E k \in EventMsgs(sent) : sent[k].type = "init" /\ sent[k].bpm = BPM

====
